---- MODULE Spec2Model ----
(***************************************************************************)
(* SENTINEL honeypot: the session engagement engine.                       *)
(*                                                                         *)
(* Two programs share the repository:                                      *)
(*   - server.js : the Express backend (engageHandler, sendGuviCallback,   *)
(*                 the process-wide sessionStore Map);                     *)
(*   - App.tsx   : the browser dashboard (handleEngineRequest and the      *)
(*                 React `sessions` state).                                *)
(* Spec is the backend, AppSpec is the dashboard.                          *)
(*                                                                         *)
(* JavaScript runs each handler to its next `await` without interruption,  *)
(* so one action is one run-to-await segment of a handler.                 *)
(***************************************************************************)
EXTENDS Integers, Sequences, FiniteSets, TLC

VARIABLES
    sessionStore,   \* server.js: Map sessionId -> {intel, totalMessages, callbackSent}
    requests,       \* server.js: the invocations of engageHandler, in arrival order
    callbacks,      \* server.js: the outbound fetches started by sendGuviCallback
    sessions,       \* App.tsx: React state, Record<sessionId, SessionState>
    appRequests,    \* App.tsx: the invocations of handleEngineRequest
    dispatches,     \* the calls of sendFinalCallback and sendGuviCallback made directly
    merges          \* the intelligence merge applied to three fragments on its own

vars == <<sessionStore, requests, callbacks, sessions, appRequests, dispatches, merges>>
serverVars == <<sessionStore, requests, callbacks>>
appVars == <<sessions, appRequests>>

---------------------------------------------------------------------------
(* Bounds                                                                  *)

MaxRequests == 2        \* invocations of engageHandler in one run
MaxHistory == 1         \* length of the conversationHistory array a caller attaches
MaxAppRequests == 2     \* invocations of handleEngineRequest in one run
MaxDispatches == 2
MaxFragment == 2         \* length of one array of an intelligence fragment

SessionIds == {"S1", "S2"}

---------------------------------------------------------------------------
(* JavaScript values                                                       *)

Range(s) == {s[i] : i \in DOMAIN s}

\* NaN, the value of `undefined + 2`
NaN == -1

Fields == {"bankAccounts", "upiIds", "phishingLinks", "phoneNumbers", "suspiciousKeywords"}

\* [...new Set(arr)]: the distinct elements of arr in order of first occurrence
RECURSIVE NewSet(_)
NewSet(arr) ==
    IF arr = <<>> THEN <<>>
    ELSE LET init == NewSet(SubSeq(arr, 1, Len(arr) - 1))
             last == arr[Len(arr)]
         IN  IF last \in Range(init) THEN init ELSE Append(init, last)

EmptyIntel ==
    [bankAccounts |-> <<>>, upiIds |-> <<>>, phishingLinks |-> <<>>,
     phoneNumbers |-> <<>>, suspiciousKeywords |-> <<>>]

\* `aiData` before the assignment of line 153 or 157
Undefined == [undefined |-> TRUE]

\* mutant: the fallback object misses its intelligence
FallbackWithoutIntel ==
    [scamDetected |-> TRUE,
     reply |-> "Can you explain this more clearly?",
     isEngagementComplete |-> TRUE,
     agentNotes |-> "Fallback response due to LLM failure"]

\* mutant: a fallback that does not claim the engagement is complete
FallbackNotComplete ==
    [scamDetected |-> TRUE,
     reply |-> "Can you explain this more clearly?",
     isEngagementComplete |-> FALSE,
     extractedIntelligence |->
        [bankAccounts |-> <<>>, upiIds |-> <<>>, phishingLinks |-> <<>>,
         phoneNumbers |-> <<>>, suspiciousKeywords |-> <<"urgent", "verify">>],
     agentNotes |-> "Fallback response due to LLM failure"]

\* the object assigned in the catch block (lines 157-169)
FallbackData ==
    [scamDetected |-> TRUE,
     reply |-> "Can you explain this more clearly?",
     isEngagementComplete |-> TRUE,
     extractedIntelligence |->
        [bankAccounts |-> <<>>, upiIds |-> <<>>, phishingLinks |-> <<>>,
         phoneNumbers |-> <<>>, suspiciousKeywords |-> <<"urgent", "verify">>],
     agentNotes |-> "Fallback response due to LLM failure"]

\* the default session of line 173
DefaultSession == [intel |-> EmptyIntel, callbackSent |-> FALSE]

---------------------------------------------------------------------------
(* Inputs                                                                  *)

\* intelligence fragments the classifier may extract (arrays may repeat a value)
Fragments ==
    { [EmptyIntel EXCEPT !.phoneNumbers = <<"+1-555">>],
      [EmptyIntel EXCEPT !.upiIds = <<"x@bank", "x@bank">>,
                         !.suspiciousKeywords = <<"verify">>] }

\* JSON.parse results that have every field of RESPONSE_SCHEMA
FullResults ==
    [scamDetected : BOOLEAN,
     reply : {"ok"},
     isEngagementComplete : BOOLEAN,
     extractedIntelligence : Fragments,
     agentNotes : {"notes"}]

\* JSON.parse results that lack extractedIntelligence, or one field of it
PartialResults ==
    { [scamDetected |-> TRUE, reply |-> "ok", isEngagementComplete |-> TRUE,
       agentNotes |-> "notes"],
      [scamDetected |-> TRUE, reply |-> "ok", isEngagementComplete |-> TRUE,
       extractedIntelligence |-> [bankAccounts |-> <<"acct-1">>],
       agentNotes |-> "notes"] }

ParsedResults == FullResults \cup PartialResults

\* ways the try block of lines 139-153 throws
Faults == {"timeout", "rejected", "unparseable"}

Message == [sender |-> "scammer", text |-> "hi"]

RECURSIVE Repeat(_, _)
Repeat(x, n) == IF n = 0 THEN <<>> ELSE Append(Repeat(x, n - 1), x)

\* values of req.body.conversationHistory
NoHistory == [type |-> "undefined"]
Histories ==
    { NoHistory, [type |-> "null"], [type |-> "number"],
      [type |-> "array", items |-> Repeat(Message, MaxHistory)] }

\* the configured shared secret (process.env.X_API_KEY, or its default)
X_API_KEY == "GUVI_SECRET_2025"

TurnBody(sid, text, hist) ==
    [empty |-> FALSE, sessionId |-> sid, text |-> text, conversationHistory |-> hist]

\* inbound requests: the x-api-key header ("" when absent) and the parsed body
Inbound ==
    { [key |-> "wrong", body |-> TurnBody("S1", "hello", NoHistory)],
      [key |-> "", body |-> [empty |-> TRUE]],
      [key |-> X_API_KEY, body |-> [empty |-> TRUE]],
      [key |-> X_API_KEY, body |-> TurnBody("", "hello", NoHistory)],
      [key |-> X_API_KEY, body |-> TurnBody("S1", "", NoHistory)],
      [key |-> X_API_KEY, body |-> TurnBody("S2", "hello", [type |-> "number"])] }
    \cup { [key |-> X_API_KEY, body |-> TurnBody("S1", "hello", hist)] :
             hist \in Histories \ {[type |-> "number"]} }

---------------------------------------------------------------------------
(* server.js                                                               *)

Unsent == [sent |-> FALSE]
Json(code, body) == [sent |-> TRUE, code |-> code, body |-> body]

Unauthorized == Json(401, [status |-> "error", message |-> "Unauthorized"])
\* mutant: without the handshake branch an empty body fails the validation
HandshakeMissing == Json(400, [status |-> "error", message |-> "Invalid request body"])
Handshake == Json(200, [status |-> "success", message |-> "Honeypot endpoint reachable"])
InvalidBody == Json(400, [status |-> "error", message |-> "Invalid request body"])
Success(ai) == Json(200, [status |-> "success", reply |-> ai.reply])

\* conversationHistory after the destructuring default of line 102
Destructured(hist) ==
    IF hist.type = "undefined" THEN [type |-> "array", items |-> <<>>] ELSE hist

\* `conversationHistory.length` throws a TypeError (line 113)
LengthThrows(hist) == Destructured(hist).type = "null"

\* mutant: the turn's own message and reply are not counted
TotalMessagesHistoryOnly(hist) ==
    LET h == Destructured(hist)
    IN  IF h.type = "array" THEN Len(h.items) ELSE NaN

\* `conversationHistory.length + 2` (line 192)
TotalMessages(hist) ==
    LET h == Destructured(hist)
    IN  IF h.type = "array" THEN Len(h.items) + 2 ELSE NaN

\* mutant: the stored session is never read back
PrevSessionForgotten(store, sid) == DefaultSession

\* sessionStore.get(sessionId) || {...} (line 173)
PrevSession(store, sid) ==
    IF sid \in DOMAIN store THEN store[sid] ELSE DefaultSession

\* the spreads of lines 185-189 throw a TypeError
MergeThrows(ai) ==
    \/ "extractedIntelligence" \notin DOMAIN ai
    \/ \E f \in Fields : f \notin DOMAIN ai.extractedIntelligence

\* mutant: the arrays are concatenated without the Set
MergeFieldAppending(prev, next) == prev \o next

\* mutant: the turn's values are kept only when nothing is stored yet
MergeFieldKeepingFirst(prev, next) ==
    IF prev = <<>> THEN NewSet(next) ELSE NewSet(prev)

\* mutant: the turn's values replace the stored ones
MergeFieldReplacing(prev, next) == NewSet(next)

\* [...new Set([...prev, ...next])]
MergeField(prev, next) == NewSet(prev \o next)

MergedIntel(prev, ai) ==
    [f \in Fields |-> MergeField(prev.intel[f], ai.extractedIntelligence[f])]

\* mutant: the write resets the flag
StoredSessionResetting(prev, mergedIntel, totalMessages) ==
    [intel |-> mergedIntel, totalMessages |-> totalMessages, callbackSent |-> FALSE]

\* the object written by sessionStore.set (lines 194-198)
StoredSession(prev, mergedIntel, totalMessages) ==
    [intel |-> mergedIntel, totalMessages |-> totalMessages,
     callbackSent |-> prev.callbackSent]

\* mutant: the flag is not consulted
NeedsCallbackIgnoringFlag(ai, prev) ==
    ai.scamDetected /\ ai.isEngagementComplete

\* mutant: completion alone triggers the callback
NeedsCallbackOnCompletion(ai, prev) ==
    ai.isEngagementComplete /\ ~prev.callbackSent

\* mutant: the negation of the flag is dropped
NeedsCallbackInverted(ai, prev) ==
    ai.scamDetected /\ ai.isEngagementComplete /\ prev.callbackSent

\* the condition of line 201
NeedsCallback(ai, prev) ==
    ai.scamDetected /\ ai.isEngagementComplete /\ ~prev.callbackSent

\* mutant: the flag is not set before the dispatch
MarkCallbackSentOmitted(session) == session

\* sessionStore.get(sessionId).callbackSent = true (line 202)
MarkCallbackSent(session) == [session EXCEPT !.callbackSent = TRUE]

\* the payload of sendGuviCallback (lines 222-228)
Payload(sid, intel, totalMessages, notes) ==
    [sessionId |-> sid, scamDetected |-> TRUE, totalMessagesExchanged |-> totalMessages,
     extractedIntelligence |-> intel, agentNotes |-> notes]

\* mutant: one record shared by every session id
MapSetShared(store, sid, value) ==
    [s \in DOMAIN store \cup {sid} |-> value]

\* sessionStore.set(sessionId, value)
MapSet(store, sid, value) ==
    [s \in DOMAIN store \cup {sid} |-> IF s = sid THEN value ELSE store[s]]

\* mutant: any key that is present is accepted
AuthorizedWhenPresent(inb) == inb.key # ""

\* req.headers["x-api-key"] === X_API_KEY (line 87)
Authorized(inb) == inb.key = X_API_KEY

\* !req.body || Object.keys(req.body).length === 0 (line 95)
IsHandshake(body) == body.empty

\* mutant: only the session id is required
InvalidShapeIgnoringText(body) == body.sessionId = ""

\* !sessionId || !message?.text (line 104)
InvalidShape(body) == body.sessionId = "" \/ body.text = ""

\* engageHandler up to its first await (lines 80-151); classifier is the
\* generateContent promise: "idle" (never called), "pending", "settled" (it
\* decided the race of withTimeout, or failed) or "discarded" (it settled
\* after the deadline had fired)
Receive(inb) ==
    /\ Len(requests) < MaxRequests
    /\ LET start(pc, res) ==
               requests' = Append(requests,
                   [req |-> inb, pc |-> pc, fallbackUsed |-> FALSE, aiData |-> Undefined,
                    classifier |-> IF pc = "awaitLLM" THEN "pending" ELSE "idle",
                    res |-> res])
       IN  IF ~Authorized(inb) THEN start("done", Unauthorized)
           ELSE IF IsHandshake(inb.body) THEN start("done", Handshake)
           ELSE IF InvalidShape(inb.body)
                THEN start("done", InvalidBody)
           ELSE IF LengthThrows(inb.body.conversationHistory)
                THEN start("threw", Unsent)
           ELSE start("awaitLLM", Unsent)
    /\ UNCHANGED <<sessionStore, callbacks, appVars, dispatches, merges>>

\* engageHandler from the session merge to its next await or its response
\* (lines 172-209), with aiData already assigned
SessionMerge(h, ai, caught, classifier) ==
    LET r == requests[h]
        sid == r.req.body.sessionId
        settle(pc, res) ==
            requests' = [requests EXCEPT ![h] =
                [r EXCEPT !.pc = pc, !.fallbackUsed = caught, !.aiData = ai,
                          !.classifier = classifier, !.res = res]]
    IN  IF MergeThrows(ai)
        THEN /\ settle("threw", Unsent)
             /\ UNCHANGED <<sessionStore, callbacks>>
        ELSE LET prev == PrevSession(sessionStore, sid)
                 mergedIntel == MergedIntel(prev, ai)
                 totalMessages == TotalMessages(r.req.body.conversationHistory)
                 stored == StoredSession(prev, mergedIntel, totalMessages)
             IN  IF NeedsCallback(ai, prev)
                 THEN /\ sessionStore' = MapSet(sessionStore, sid, MarkCallbackSent(stored))
                      /\ callbacks' = Append(callbacks,
                            [handler |-> h, status |-> "pending",
                             payload |-> Payload(sid, mergedIntel, totalMessages,
                                                 ai.agentNotes)])
                      /\ settle("awaitCallback", Unsent)
                 ELSE /\ sessionStore' = MapSet(sessionStore, sid, stored)
                      /\ UNCHANGED callbacks
                      /\ settle("done", Success(ai))

\* the classifier resolves within the deadline with text JSON.parse accepts
LLMReturns(h, parsed) ==
    /\ h \in DOMAIN requests
    /\ requests[h].pc = "awaitLLM"
    /\ SessionMerge(h, parsed, FALSE, "settled")
    /\ UNCHANGED <<appVars, dispatches, merges>>

\* the deadline fires first, the classifier rejects, or JSON.parse throws: the
\* catch block drops the error, logs one fixed line and assigns the fallback
\* (lines 154-170); only after a timeout is the classifier still outstanding
LLMFails(h, fault) ==
    /\ h \in DOMAIN requests
    /\ requests[h].pc = "awaitLLM"
    /\ SessionMerge(h, FallbackData, TRUE,
                    IF fault = "timeout" THEN "pending" ELSE "settled")
    /\ UNCHANGED <<appVars, dispatches, merges>>

\* a late rejection of the classifier
Rejection == [rejected |-> TRUE]

\* what the classifier may settle with after the deadline has fired: a
\* completed scam result that carries a phone number, or a rejection
LateResults ==
    {r \in FullResults : /\ r.scamDetected /\ r.isEngagementComplete
                         /\ r.extractedIntelligence.phoneNumbers # <<>>}
        \cup {Rejection}

\* mutant: the late result is merged and dispatched like a turn's own
LateLLMResultApplied(h, late) ==
    /\ h \in DOMAIN requests
    /\ requests[h].pc # "awaitLLM"
    /\ requests[h].classifier = "pending"
    /\ IF late = Rejection \/ MergeThrows(late)
       THEN /\ requests' = [requests EXCEPT ![h].classifier = "discarded"]
            /\ UNCHANGED <<sessionStore, callbacks>>
       ELSE LET sid == requests[h].req.body.sessionId
                prev == PrevSession(sessionStore, sid)
            IN  /\ sessionStore' = MapSet(sessionStore, sid,
                       [prev EXCEPT !.intel = MergedIntel(prev, late)])
                /\ requests' = [requests EXCEPT ![h].classifier = "discarded",
                                                ![h].aiData = late]
                /\ UNCHANGED callbacks
    /\ UNCHANGED <<appVars, dispatches, merges>>

\* the classifier settles after the deadline fired: Promise.race (lines 35-42)
\* has already rejected, so nothing of the handler runs
LateLLMResult(h, late) ==
    /\ h \in DOMAIN requests
    /\ requests[h].pc # "awaitLLM"
    /\ requests[h].classifier = "pending"
    /\ requests' = [requests EXCEPT ![h].classifier = "discarded"]
    /\ UNCHANGED <<sessionStore, callbacks, appVars, dispatches, merges>>

\* outcomes of the fetch of sendGuviCallback: a response, or a transport
\* error; the status of a response is only logged (line 240), 2xx or not, so
\* "200" stands for a response of any status
FetchOutcomes == {"200", "error"}

\* mutant: a failed dispatch clears the flag so that a later turn retries
CallbackSettlesClearingFlag(h, outcome) ==
    /\ h \in DOMAIN requests
    /\ requests[h].pc = "awaitCallback"
    /\ \E i \in DOMAIN callbacks :
          /\ callbacks[i].handler = h
          /\ callbacks[i].status = "pending"
          /\ callbacks' = [callbacks EXCEPT ![i].status = outcome]
    /\ requests' = [requests EXCEPT ![h].pc = "done",
                                    ![h].res = Success(requests[h].aiData)]
    /\ sessionStore' =
          IF outcome = "200" THEN sessionStore
          ELSE [sessionStore EXCEPT
                   ![requests[h].req.body.sessionId].callbackSent = FALSE]
    /\ UNCHANGED <<appVars, dispatches, merges>>

\* the fetch settles, sendGuviCallback returns, the handler responds (lines 203-209)
CallbackSettles(h, outcome) ==
    /\ h \in DOMAIN requests
    /\ requests[h].pc = "awaitCallback"
    /\ \E i \in DOMAIN callbacks :
          /\ callbacks[i].handler = h
          /\ callbacks[i].status = "pending"
          /\ callbacks' = [callbacks EXCEPT ![i].status = outcome]
    /\ requests' = [requests EXCEPT ![h].pc = "done",
                                    ![h].res = Success(requests[h].aiData)]
    /\ UNCHANGED <<sessionStore, appVars, dispatches, merges>>

ServerInit ==
    /\ sessionStore = [s \in {} |-> DefaultSession]
    /\ requests = <<>>
    /\ callbacks = <<>>

---------------------------------------------------------------------------
(* App.tsx                                                                 *)

\* config.apiKey (line 13)
ConfigApiKey == "GUVI_SECRET_2025"

\* the result processHoneyPotMessage returns from its catch block
\* (services/geminiService, src/types.ts lines 136-145)
SimulationFallback ==
    [scamDetected |-> FALSE,
     reply |-> "I'm sorry, I don't understand. Could you explain more?",
     isEngagementComplete |-> FALSE,
     extractedIntelligence |-> EmptyIntel,
     agentNotes |-> "Simulation error."]

\* HoneyPotRequest values the simulator sends, with the key typed beside them
AppInbound ==
    [key : {ConfigApiKey, "wrong"},
     sessionId : SessionIds,
     message : {[sender |-> "scammer", text |-> "hello"]},
     conversationHistory : {<<>>, Repeat(Message, MaxHistory)}]

\* prev[req.sessionId] || {...} (lines 31-39); lastUpdated (Date.now()) is not kept
Existing(prev, req) ==
    IF req.sessionId \in DOMAIN prev THEN prev[req.sessionId]
    ELSE [sessionId |-> req.sessionId, messages |-> req.conversationHistory,
          intel |-> EmptyIntel, isScam |-> FALSE, status |-> "active",
          agentNotes |-> ""]

\* Array.from(new Set([...existing, ...result])) (lines 41-47)
UpdatedIntel(existing, result) ==
    [f \in Fields |-> NewSet(existing.intel[f] \o result.extractedIntelligence[f])]

\* the session object of the updater (lines 51-59)
UpdatedSession(existing, req, result) ==
    [existing EXCEPT
        !.messages = existing.messages \o
            <<req.message, [sender |-> "user", text |-> result.reply]>>,
        !.intel = UpdatedIntel(existing, result),
        !.isScam = result.scamDetected,
        !.agentNotes = result.agentNotes,
        !.status = IF result.isEngagementComplete THEN "completed" ELSE "active"]

\* handleEngineRequest up to its await (lines 20-28)
AppReceive(inb) ==
    /\ Len(appRequests) < MaxAppRequests
    /\ appRequests' = Append(appRequests,
          IF inb.key # ConfigApiKey
          THEN [req |-> inb, pc |-> "done", result |-> Undefined,
                res |-> [status |-> "error", message |-> "401 Unauthorized"]]
          ELSE [req |-> inb, pc |-> "awaitLLM", result |-> Undefined,
                res |-> Unsent])
    /\ UNCHANGED <<sessions, serverVars, dispatches, merges>>

\* handleEngineRequest after its await: the setSessions updater and the
\* response (lines 30-64)
AppUpdate(h, result) ==
    LET req == appRequests[h].req
    IN  /\ sessions' = MapSet(sessions, req.sessionId,
              UpdatedSession(Existing(sessions, req), req, result))
        /\ appRequests' = [appRequests EXCEPT
              ![h].pc = "done",
              ![h].result = result,
              ![h].res = [status |-> "success", reply |-> result.reply,
                          scamDetected |-> result.scamDetected]]

\* processHoneyPotMessage returns the parsed classifier result
AppReturns(h, result) ==
    /\ h \in DOMAIN appRequests
    /\ appRequests[h].pc = "awaitLLM"
    /\ AppUpdate(h, result)
    /\ UNCHANGED <<serverVars, dispatches, merges>>

\* processHoneyPotMessage catches a classifier error and returns its fallback
AppFails(h) ==
    /\ h \in DOMAIN appRequests
    /\ appRequests[h].pc = "awaitLLM"
    /\ AppUpdate(h, SimulationFallback)
    /\ UNCHANGED <<serverVars, dispatches, merges>>

AppIdle ==
    /\ sessions = [s \in {} |-> DefaultSession]
    /\ appRequests = <<>>

---------------------------------------------------------------------------
(* The notification dispatchers, called on their own: sendFinalCallback of  *)
(* geminiService.ts, the sendFinalCallback of services/geminiService that   *)
(* App.tsx imports (types.ts lines 151-171) and sendGuviCallback of         *)
(* server.js.  A call record counts the fetches the call has started.       *)

\* what the awaited fetch can produce: a response with a status, or a throw
Responses ==
    {[threw |-> FALSE, status |-> st] : st \in {200, 204, 500}}
        \cup {[threw |-> TRUE, status |-> 0]}

\* `response.ok`: the status is in the range 200-299
Ok(response) == response.status >= 200 /\ response.status <= 299

\* the payloads handed to sendFinalCallback: with scamDetected true, false,
\* and without the field
DispatchPayloads ==
    UNION {{ [Payload(sid, EmptyIntel, 2, "") EXCEPT !.scamDetected = b] : b \in BOOLEAN }
             \cup {[sessionId |-> sid, totalMessagesExchanged |-> 2,
                    extractedIntelligence |-> EmptyIntel, agentNotes |-> ""]}
           : sid \in SessionIds}

\* `payload.scamDetected` as a condition
ScamDetected(payload) ==
    "scamDetected" \in DOMAIN payload /\ payload.scamDetected

Returned(fn, payload, fetches, response, result, log) ==
    [fn |-> fn, payload |-> payload, pc |-> "returned", fetches |-> fetches,
     response |-> response, result |-> result, log |-> log]

AwaitFetch(fn, payload) ==
    [fn |-> fn, payload |-> payload, pc |-> "awaitFetch", fetches |-> 1,
     response |-> Undefined, result |-> Undefined, log |-> <<>>]

\* geminiService.ts, sendFinalCallback up to its await (lines 73-84)
sendFinalCallback(payload) ==
    /\ Len(dispatches) < MaxDispatches
    /\ dispatches' = Append(dispatches,
          IF ~ScamDetected(payload)
          THEN Returned("sendFinalCallback", payload, 0, Undefined,
                        [status |-> "aborted", reason |-> "Not a scam"],
                        <<"Callback Aborted: Scam not detected.">>)
          ELSE AwaitFetch("sendFinalCallback", payload))
    /\ UNCHANGED <<serverVars, appVars, merges>>

\* services/geminiService, sendFinalCallback up to its await (types.ts lines 151-161)
sendFinalCallbackMock(payload) ==
    /\ Len(dispatches) < MaxDispatches
    /\ dispatches' = Append(dispatches,
          IF ~ScamDetected(payload)
          THEN Returned("sendFinalCallbackMock", payload, 0, Undefined,
                        [status |-> "error",
                         message |-> "Scam must be detected to report intelligence."],
                        <<>>)
          ELSE AwaitFetch("sendFinalCallbackMock", payload))
    /\ UNCHANGED <<serverVars, appVars, merges>>

\* server.js, sendGuviCallback up to its await (lines 221-238)
sendGuviCallback(sessionId, intel, totalMessages, notes) ==
    /\ Len(dispatches) < MaxDispatches
    /\ dispatches' = Append(dispatches,
          AwaitFetch("sendGuviCallback", Payload(sessionId, intel, totalMessages, notes)))
    /\ UNCHANGED <<serverVars, appVars, merges>>

\* what each dispatcher returns once its fetch has settled
\* (geminiService.ts 86-96, types.ts 163-170, server.js 240-243)
DispatchResult(fn, response) ==
    CASE fn = "sendFinalCallback" ->
           IF ~response.threw /\ Ok(response)
           THEN [status |-> "success", code |-> response.status]
           ELSE [status |-> "error", message |-> "Network failure"]
      [] fn = "sendFinalCallbackMock" ->
           IF response.threw
           THEN [status |-> "error",
                 message |-> "Network error (CORS restriction likely in browser)."]
           ELSE IF Ok(response)
           THEN [status |-> "success", message |-> "Intelligence successfully reported."]
           ELSE [status |-> "error", message |-> "GUVI Server Error", code |-> response.status]
      [] fn = "sendGuviCallback" -> Undefined

\* what each dispatcher writes to the console once its fetch has settled
DispatchLog(fn, response) ==
    CASE fn = "sendFinalCallback" ->
           IF ~response.threw /\ Ok(response) THEN <<>>
           ELSE <<"Callback Network Error:">>
      [] fn = "sendFinalCallbackMock" -> <<>>
      [] fn = "sendGuviCallback" ->
           IF response.threw THEN <<"Callback failed:">>
           ELSE <<"GUVI callback status:">>

\* mutant: a dispatcher that sends the report again when the attempt failed
FetchSettlesRetrying(d, response) ==
    /\ d \in DOMAIN dispatches
    /\ dispatches[d].pc = "awaitFetch"
    /\ dispatches' = [dispatches EXCEPT
          ![d] = IF (response.threw \/ ~Ok(response)) /\ dispatches[d].fetches < 2
                 THEN [@ EXCEPT !.fetches = @ + 1]
                 ELSE Returned(@.fn, @.payload, @.fetches, response,
                               DispatchResult(@.fn, response),
                               DispatchLog(@.fn, response))]
    /\ UNCHANGED <<serverVars, appVars, merges>>

\* the fetch of call d settles and the dispatcher returns
FetchSettles(d, response) ==
    /\ d \in DOMAIN dispatches
    /\ dispatches[d].pc = "awaitFetch"
    /\ dispatches' = [dispatches EXCEPT
          ![d] = Returned(@.fn, @.payload, @.fetches, response,
                          DispatchResult(@.fn, response),
                          DispatchLog(@.fn, response))]
    /\ UNCHANGED <<serverVars, appVars, merges>>

DispatchIdle == dispatches = <<>>

\* the payload endSession builds from the session (App.tsx lines 81-103)
FinalCallbackPayload(session) ==
    [sessionId |-> session.sessionId,
     scamDetected |-> session.isScam,
     attackDetected |-> TRUE,
     attackType |-> "prompt_injection",
     mitigation |-> "blocked",
     confidence |-> "high",
     totalMessagesExchanged |-> Len(session.messages),
     extractedIntelligence |->
        [intent |-> "credential_exfiltration", technique |-> "instruction_override",
         target |-> "user_credentials", raw |-> session.intel],
     agentNotes |->
        IF session.agentNotes = ""
        THEN "Prompt injection detected via semantic similarity and rule violation. Session blocked."
        ELSE session.agentNotes]

\* endSession up to its await (App.tsx lines 71-107): it returns at once for
\* an unknown session and, after an alert, for a session whose isScam is
\* false; otherwise it calls the sendFinalCallback of services/geminiService,
\* which starts its fetch because the payload's scamDetected is true
endSession(sessionId) ==
    /\ sessionId \in DOMAIN sessions
    /\ sessions[sessionId].isScam
    /\ Len(dispatches) < MaxDispatches
    /\ dispatches' = Append(dispatches,
          AwaitFetch("sendFinalCallbackMock", FinalCallbackPayload(sessions[sessionId])))
    /\ UNCHANGED <<serverVars, appVars, merges>>

\* endSession after its await (App.tsx lines 107-120): whatever the result,
\* one alert and then the updater that sets the status
endSessionReturns(d, response) ==
    /\ d \in DOMAIN dispatches
    /\ dispatches[d].pc = "awaitFetch"
    /\ dispatches' = [dispatches EXCEPT
          ![d] = Returned(@.fn, @.payload, @.fetches, response,
                          DispatchResult(@.fn, response),
                          DispatchLog(@.fn, response))]
    /\ sessions' = [sessions EXCEPT
          ![dispatches[d].payload.sessionId].status = "completed"]
    /\ UNCHANGED <<serverVars, appRequests, merges>>

---------------------------------------------------------------------------
(* The field-wise merge of server.js (lines 184-190) and of App.tsx (lines  *)
(* 41-47), applied on its own to fragments a, b and c in both orders and    *)
(* both groupings.                                                          *)

SeqsUpTo(S, n) == UNION {[1..k -> S] : k \in 0..n}

\* fragments whose arrays may repeat a value and share values with each other
MergeFragments ==
    { [EmptyIntel EXCEPT !.phoneNumbers = s, !.suspiciousKeywords = t] :
         s \in SeqsUpTo({"v1", "v2"}, MaxFragment), t \in {<<>>, <<"verify">>} }

\* mergedIntel of server.js for stored intelligence a and fragment b
ServerMerge(a, b) == MergedIntel([intel |-> a], [extractedIntelligence |-> b])

\* updatedIntel of App.tsx for stored intelligence a and fragment b
AppMerge(a, b) == UpdatedIntel([intel |-> a], [extractedIntelligence |-> b])

MergeInput(a, b, c) ==
    [a |-> a, b |-> b, c |-> c, by |-> "none",
     ab |-> EmptyIntel, ba |-> EmptyIntel, ab_c |-> EmptyIntel, a_bc |-> EmptyIntel]

\* the merge of server.js applied to the three fragments
MergeByServer ==
    /\ merges.by = "none"
    /\ merges' = [merges EXCEPT
          !.by = "server",
          !.ab = ServerMerge(merges.a, merges.b),
          !.ba = ServerMerge(merges.b, merges.a),
          !.ab_c = ServerMerge(ServerMerge(merges.a, merges.b), merges.c),
          !.a_bc = ServerMerge(merges.a, ServerMerge(merges.b, merges.c))]
    /\ UNCHANGED <<serverVars, appVars, dispatches>>

\* the merge of App.tsx applied to the three fragments
MergeByApp ==
    /\ merges.by = "none"
    /\ merges' = [merges EXCEPT
          !.by = "app",
          !.ab = AppMerge(merges.a, merges.b),
          !.ba = AppMerge(merges.b, merges.a),
          !.ab_c = AppMerge(AppMerge(merges.a, merges.b), merges.c),
          !.a_bc = AppMerge(merges.a, AppMerge(merges.b, merges.c))]
    /\ UNCHANGED <<serverVars, appVars, dispatches>>

\* no merge is being computed on its own
MergeIdle == merges = [by |-> "idle"]

Init == ServerInit /\ AppIdle /\ DispatchIdle /\ MergeIdle

Next ==
    \/ \E inb \in Inbound : Receive(inb)
    \/ \E h \in 1..MaxRequests, parsed \in ParsedResults : LLMReturns(h, parsed)
    \/ \E h \in 1..MaxRequests, fault \in Faults : LLMFails(h, fault)
    \/ \E h \in 1..MaxRequests, late \in LateResults : LateLLMResult(h, late)
    \/ \E h \in 1..MaxRequests, outcome \in FetchOutcomes : CallbackSettles(h, outcome)

Spec == Init /\ [][Next]_vars

AppNext ==
    \/ \E inb \in AppInbound : AppReceive(inb)
    \/ \E h \in 1..MaxAppRequests, result \in FullResults : AppReturns(h, result)
    \/ \E h \in 1..MaxAppRequests : AppFails(h)
    \/ \E sessionId \in SessionIds : endSession(sessionId)
    \/ \E d \in 1..MaxDispatches, response \in Responses : endSessionReturns(d, response)

AppSpec == Init /\ [][AppNext]_vars

DispatchNext ==
    \/ \E payload \in DispatchPayloads : sendFinalCallback(payload)
    \/ \E payload \in DispatchPayloads : sendFinalCallbackMock(payload)
    \/ \E sid \in SessionIds : sendGuviCallback(sid, EmptyIntel, 2, "")
    \/ \E d \in 1..MaxDispatches, response \in Responses : FetchSettles(d, response)

DispatchSpec == Init /\ [][DispatchNext]_vars

MergeInit ==
    /\ ServerInit /\ AppIdle /\ DispatchIdle
    /\ \E a \in MergeFragments, b \in MergeFragments, c \in MergeFragments :
          merges = MergeInput(a, b, c)

MergeNext == MergeByServer \/ MergeByApp

MergeSpec == MergeInit /\ [][MergeNext]_vars

---------------------------------------------------------------------------
(* Properties of server.js                                                 *)

\* request h ran the session merge of lines 172-198 to its end
Merged(h) == requests[h].pc \in {"awaitCallback", "done"} /\ requests[h].aiData # Undefined

SessionOf(h) == requests[h].req.body.sessionId

\* the turns of session sid that ran the merge
Turns(sid) == {h \in DOMAIN requests : Merged(h) /\ SessionOf(h) = sid}

\* the outbound reports started for session sid
Dispatched(sid) == {i \in DOMAIN callbacks : callbacks[i].payload.sessionId = sid}

\* the turns of session sid whose result reports a completed scam
Completing(sid) ==
    {h \in Turns(sid) :
        requests[h].aiData.scamDetected /\ requests[h].aiData.isEngagementComplete}

\* what the store holds for sid (nothing stored reads as no intelligence, not notified)
Stored(sid) ==
    IF sid \in DOMAIN sessionStore THEN sessionStore[sid]
    ELSE [intel |-> EmptyIntel, callbackSent |-> FALSE]

\* C1: for every session id, in every reachable state (any interleaving of
\* turns, any classifier result, timeouts and failures included), at most
\* one outbound notification has been dispatched for the session.
C1_AtMostOneNotification ==
    \A sid \in SessionIds : Cardinality(Dispatched(sid)) <= 1

\* two completing turns of S1 ran, one on a parsed result and one on the
\* fallback, and one report went out
C1_Witness ==
    /\ \E g, h \in Completing("S1") :
          requests[g].fallbackUsed /\ ~requests[h].fallbackUsed
    /\ Cardinality(Dispatched("S1")) = 1

\* C2: when two or more turns of one session, interleaved at their awaits,
\* got a classifier result (one with every field of RESPONSE_SCHEMA, or the
\* fallback) with scamDetected and isEngagementComplete both true, exactly
\* one notification has been attempted for the session.
C2_ExactlyOneAttempt ==
    \A sid \in SessionIds :
        Cardinality(Completing(sid)) >= 2 => Cardinality(Dispatched(sid)) = 1

\* the first request still awaits its dispatch while a second completing
\* turn of the session, on a parsed result, has already been answered
C2_Witness ==
    /\ Len(requests) >= 2
    /\ requests[1].pc = "awaitCallback"
    /\ requests[2].pc = "done"
    /\ {1, 2} \subseteq Completing("S1")
    /\ ~requests[1].fallbackUsed /\ ~requests[2].fallbackUsed
    /\ Cardinality(Dispatched("S1")) = 1

\* C3: no turn's contribution is lost: every value of the fragment of every
\* turn that ran the merge is in the session's accumulated intelligence,
\* whatever the order in which concurrent turns resumed.
C3_NoLostUpdate ==
    \A h \in DOMAIN requests :
        Merged(h) =>
            \A f \in Fields :
                Range(requests[h].aiData.extractedIntelligence[f])
                    \subseteq Range(Stored(SessionOf(h)).intel[f])

\* the second request resumed before the first (its "urgent" precedes the
\* first's "verify"), and the values of both are stored
C3_Witness ==
    /\ Len(requests) >= 2
    /\ {1, 2} \subseteq Turns("S1")
    /\ requests[1].aiData.extractedIntelligence.upiIds = <<"x@bank", "x@bank">>
    /\ requests[2].fallbackUsed
    /\ Stored("S1").intel.suspiciousKeywords = <<"urgent", "verify">>
    /\ Stored("S1").intel.upiIds = <<"x@bank">>

\* C4: accumulated intelligence only grows: in every step, for every stored
\* session and every field, the values stored before the step are stored
\* after it.
C4_IntelOnlyGrows ==
    [][\A sid \in DOMAIN sessionStore :
          /\ sid \in DOMAIN sessionStore'
          /\ \A f \in Fields :
                Range(sessionStore[sid].intel[f])
                    \subseteq Range(sessionStore'[sid].intel[f])]_vars

\* two turns of S1 with different fragments ran, and the first turn's phone
\* number is still stored beside the second turn's values
C4_Witness ==
    /\ Len(requests) >= 2
    /\ {1, 2} \subseteq Turns("S1")
    /\ requests[1].pc = "done" /\ requests[2].pc = "done"
    /\ requests[1].aiData.extractedIntelligence.phoneNumbers = <<"+1-555">>
    /\ requests[2].aiData.extractedIntelligence.phoneNumbers = <<>>
    /\ Stored("S1").intel.phoneNumbers = <<"+1-555">>
    /\ Stored("S1").intel.suspiciousKeywords = <<"verify">>

\* C5: callbackSent is monotone: in every step, a session whose
\* callbackSent is true keeps it true.
C5_NotifiedMonotone ==
    [][\A sid \in DOMAIN sessionStore :
          sessionStore[sid].callbackSent =>
              sid \in DOMAIN sessionStore' /\ sessionStore'[sid].callbackSent]_vars

\* a turn that did not complete the engagement ran on a session that was
\* notified before, and the flag is still set
C5_Witness ==
    /\ Len(requests) >= 2
    /\ {1, 2} \subseteq Turns("S1")
    /\ Completing("S1") = {1}
    /\ requests[1].pc = "done" /\ requests[2].pc = "done"
    /\ Stored("S1").totalMessages = MaxHistory + 2
    /\ requests[2].req.body.conversationHistory # NoHistory
    /\ requests[1].req.body.conversationHistory = NoHistory
    /\ Stored("S1").callbackSent

\* request h resumes from the classifier await in this step and runs the
\* merge to its end
RunsTurn(h) ==
    /\ h \in DOMAIN requests
    /\ requests[h].pc = "awaitLLM"
    /\ requests'[h].pc \in {"awaitCallback", "done"}

\* some earlier turn of the session reported scamDetected=true
ScamSeenBefore(sid) == \E g \in Turns(sid) : requests[g].aiData.scamDetected

\* the step sets callbackSent and starts one outbound report for sid
Notifies(sid) ==
    /\ sid \in DOMAIN sessionStore' /\ sessionStore'[sid].callbackSent
    /\ Len(callbacks') = Len(callbacks) + 1
    /\ callbacks'[Len(callbacks')].payload.sessionId = sid
    /\ callbacks'[Len(callbacks')].status = "pending"

C8_OnlyCompletedScamNotifies ==
    /\ \A i \in DOMAIN callbacks :
          LET h == callbacks[i].handler
          IN  /\ h \in Completing(callbacks[i].payload.sessionId)
              /\ callbacks[i].payload.scamDetected
    /\ \A h \in DOMAIN requests :
          (Merged(h) /\ h \notin Completing(SessionOf(h)))
              => \A i \in DOMAIN callbacks : callbacks[i].handler # h

\* a completing turn without a scam ran first and dispatched nothing; the
\* report went out on the later turn that reported both
C8_Witness ==
    /\ Len(requests) >= 2
    /\ {1, 2} \subseteq Turns("S1")
    /\ ~requests[1].aiData.scamDetected /\ requests[1].aiData.isEngagementComplete
    /\ requests[1].pc = "done"
    /\ ~requests[2].fallbackUsed
    /\ Len(callbacks) = 1
    /\ callbacks[1].handler = 2
    /\ callbacks[1].payload.scamDetected
    /\ Stored("S1").intel.phoneNumbers = <<"+1-555">>
    /\ callbacks[1].payload.extractedIntelligence.upiIds = <<"x@bank">>
    /\ callbacks[1].payload.extractedIntelligence.phoneNumbers = <<"+1-555">>

\* C9: a turn whose classifier call timed out, rejected or returned
\* unparseable text carries the fallback result, never ends with an escaped
\* exception, is never answered with an error, and is answered with status
\* success and the fallback reply; until then it only awaits the dispatch it
\* started.
C9_FaultGivesFallbackReply ==
    \A h \in DOMAIN requests :
        requests[h].fallbackUsed =>
            /\ requests[h].aiData = FallbackData
            /\ requests[h].pc \in {"awaitCallback", "done"}
            /\ requests[h].pc = "done" =>
                  requests[h].res =
                      Json(200, [status |-> "success",
                                 reply |-> "Can you explain this more clearly?"])
            /\ requests[h].pc = "awaitCallback" =>
                  /\ requests[h].res = Unsent
                  /\ \E i \in DOMAIN callbacks :
                        callbacks[i].handler = h /\ callbacks[i].status = "pending"

\* a turn that fell back on a session notified before is answered at once;
\* a turn that fell back and dispatched is answered after a failed dispatch
C9_Witness ==
    /\ Len(requests) >= 2
    /\ requests[1].fallbackUsed /\ requests[2].fallbackUsed
    /\ SessionOf(1) = "S1" /\ SessionOf(2) = "S1"
    /\ requests[1].pc = "done" /\ requests[2].pc = "done"
    /\ requests[1].res.body.reply = "Can you explain this more clearly?"
    /\ requests[2].res.body.reply = "Can you explain this more clearly?"
    /\ Len(callbacks) = 1 /\ callbacks[1].status = "error"

\* C10 (as claimed): no exception escapes engageHandler: every request, with
\* any body shape and any classifier result, is answered with a structured
\* response.
C10_EveryRequestAnswered ==
    \A h \in DOMAIN requests :
        /\ requests[h].pc # "threw"
        /\ requests[h].pc = "done" => requests[h].res.sent

FallbackReply == "Can you explain this more clearly?"

\* C11: first resolution wins: when the deadline fires while the classifier
\* is outstanding the turn takes the fallback, and the step in which the
\* classifier settles afterwards changes neither the session store, nor the
\* outbound reports, nor the turn's result, position or response; whatever
\* arrives later, a turn that fell back answers with the fallback reply.
C11_FirstResolutionWins ==
    [][\A h \in DOMAIN requests :
          /\ ( /\ requests[h].pc = "awaitLLM"
               /\ requests'[h].pc # "awaitLLM"
               /\ requests'[h].classifier = "pending" )
             => requests'[h].fallbackUsed /\ requests'[h].aiData = FallbackData
          /\ ( /\ requests[h].pc # "awaitLLM"
               /\ requests[h].classifier = "pending"
               /\ requests'[h].classifier # "pending" )
             => /\ sessionStore' = sessionStore
                /\ callbacks' = callbacks
                /\ requests'[h].aiData = FallbackData
                /\ requests'[h].pc = requests[h].pc
                /\ requests'[h].res = requests[h].res
          /\ (requests[h].fallbackUsed /\ requests'[h].res.sent)
             => requests'[h].res.body.reply = FallbackReply]_vars

\* the classifier of the only turn of S1 settled after the deadline; the turn
\* was answered with the fallback reply and the store holds the fallback
\* keywords and nothing of the late result
C11_Witness ==
    /\ Len(requests) = 1
    /\ requests[1].classifier = "discarded"
    /\ requests[1].pc = "done"
    /\ requests[1].res.body.reply = FallbackReply
    /\ Stored("S1").intel =
          [EmptyIntel EXCEPT !.suspiciousKeywords = <<"urgent", "verify">>]
    /\ Len(callbacks) = 1

\* a request arrives in this step; Arrived is its record after the step
Arrives == Len(requests') = Len(requests) + 1
Arrived == requests'[Len(requests')]

\* the step leaves the session store and the outbound reports as they were
StoreUntouched == sessionStore' = sessionStore /\ callbacks' = callbacks

\* request h is answered in its first segment and never runs again
AnsweredAtOnce(r, code, status) ==
    /\ r.pc = "done"
    /\ r.classifier = "idle"
    /\ r.res.sent /\ r.res.code = code /\ r.res.body.status = status

\* C12: a request whose x-api-key is missing or differs from the configured
\* value is answered 401 with status error in the step it arrives, without a
\* classifier call; that step leaves the session store and the outbound
\* reports unchanged, and the request never acts again.
C12_BadSecretRejected ==
    [][/\ (Arrives /\ Arrived.req.key # X_API_KEY)
          => AnsweredAtOnce(Arrived, 401, "error") /\ StoreUntouched
       /\ \A h \in DOMAIN requests :
             requests[h].req.key # X_API_KEY => requests'[h] = requests[h]]_vars

\* a turn of S1 is stored; then a request with a wrong key and a turn body for
\* S1 was answered 401 and the stored session is the first turn's
C12_Witness ==
    /\ Len(requests) = 2
    /\ requests[1].pc = "done" /\ 1 \in Turns("S1") /\ ~requests[1].fallbackUsed
    /\ requests[2].req.key = "wrong"
    /\ requests[2].req.body.sessionId = "S1"
    /\ requests[2].res.code = 401
    /\ Stored("S1").intel = MergedIntel(DefaultSession, requests[1].aiData)
    /\ callbacks = <<>>

\* C13: a request with the right key, a body that is not empty and no session
\* id or no message text is answered 400 with status error in the step it
\* arrives, without a classifier call; that step leaves the session store and
\* the outbound reports unchanged, and the request never acts again.
C13_InvalidShapeRejected ==
    [][/\ ( /\ Arrives
            /\ Arrived.req.key = X_API_KEY
            /\ ~Arrived.req.body.empty
            /\ (Arrived.req.body.sessionId = "" \/ Arrived.req.body.text = "") )
          => AnsweredAtOnce(Arrived, 400, "error") /\ StoreUntouched
       /\ \A h \in DOMAIN requests :
             ( /\ requests[h].req.key = X_API_KEY
               /\ ~requests[h].req.body.empty
               /\ (requests[h].req.body.sessionId = "" \/ requests[h].req.body.text = "") )
             => requests'[h] = requests[h]]_vars

\* a turn of S1 is stored and notified; then a request for S1 without message
\* text was answered 400, and there is still one report
C13_Witness ==
    /\ Len(requests) = 2
    /\ requests[1].pc = "done" /\ 1 \in Completing("S1")
    /\ requests[2].req.key = X_API_KEY
    /\ ~requests[2].req.body.empty
    /\ requests[2].req.body.sessionId = "S1"
    /\ requests[2].req.body.text = ""
    /\ requests[2].res.code = 400
    /\ Stored("S1").callbackSent
    /\ Len(callbacks) = 1

\* C14 (as claimed): a request with an empty body is answered with status
\* success and leaves the session store unchanged.
C14_EmptyBodyIsProbe ==
    [][(Arrives /\ Arrived.req.body.empty)
          => /\ Arrived.res.sent /\ Arrived.res.body.status = "success"
             /\ StoreUntouched]_vars

\* C14 (amended): a request with the right key and an empty body is answered
\* 200 with status success in the step it arrives, without a classifier call,
\* and leaves the session store and the outbound reports unchanged; an empty
\* body with a missing or wrong key is answered 401.
C14_AuthorizedEmptyBodyIsProbe ==
    [][/\ (Arrives /\ Arrived.req.body.empty)
          => /\ StoreUntouched
             /\ IF Arrived.req.key = X_API_KEY
                THEN AnsweredAtOnce(Arrived, 200, "success")
                ELSE AnsweredAtOnce(Arrived, 401, "error")
       /\ \A h \in DOMAIN requests :
             requests[h].req.body.empty => requests'[h] = requests[h]]_vars

\* a turn of S2 is stored; then a probe with the right key was answered
\* success and no session was created for it
C14_Witness ==
    /\ Len(requests) = 2
    /\ requests[1].pc = "done" /\ 1 \in Turns("S2")
    /\ requests[2].req.key = X_API_KEY
    /\ requests[2].req.body.empty
    /\ requests[2].res = Json(200, [status |-> "success",
                                    message |-> "Honeypot endpoint reachable"])
    /\ DOMAIN sessionStore = {"S2"}

\* C16: marking precedes dispatch and survives its failure: whenever an
\* outbound report of a session is in flight or has finished (with a
\* response of any status or a transport error), the session's callbackSent
\* is true and the report is the only one ever started for the session.
C16_MarkedBeforeDispatch ==
    \A i \in DOMAIN callbacks :
        LET sid == callbacks[i].payload.sessionId
        IN  /\ sid \in DOMAIN sessionStore
            /\ sessionStore[sid].callbackSent
            /\ Dispatched(sid) = {i}

\* the report of S1 failed, a second completing turn of S1 has been answered,
\* the flag is still set and no second report was started
C16_Witness ==
    /\ Len(requests) = 2
    /\ Completing("S1") = {1, 2}
    /\ requests[1].pc = "done" /\ requests[2].pc = "done"
    /\ Len(callbacks) = 1
    /\ callbacks[1].status = "error"
    /\ Stored("S1").callbackSent

\* C17 (as claimed): the reply does not wait for the dispatch: a turn whose
\* outbound report is still outstanding has already been answered.
C17_ReplyDoesNotAwaitDispatch ==
    \A i \in DOMAIN callbacks :
        callbacks[i].status = "pending" => requests[callbacks[i].handler].res.sent

\* the deadline fired while the classifier of request h was outstanding
TimedOut(h) ==
    requests[h].fallbackUsed /\ requests[h].classifier \in {"pending", "discarded"}

\* C18 (as claimed): a turn whose classifier had not resolved when the
\* deadline fired waits for nothing more: it has been answered 200 with
\* status success and the fallback reply, and the fallback fragment is in
\* the session's accumulated intelligence.
C18_TimeoutAnsweredAtOnce ==
    \A h \in DOMAIN requests :
        TimedOut(h) =>
            /\ requests[h].res =
                  Json(200, [status |-> "success", reply |-> FallbackReply])
            /\ {"urgent", "verify"} \subseteq
                  Range(Stored(SessionOf(h)).intel.suspiciousKeywords)

\* the conversationHistory attached to request h is an array, or absent
HistoryIsArray(h) ==
    requests[h].req.body.conversationHistory.type \in {"undefined", "array"}

\* C20 (as claimed): the report of a session notified on its k-th turn covers
\* the messages of all k turns (an inbound message and a reply each),
\* whatever history the caller attached to the completing request.
C20_CountCoversAllTurns ==
    [][\A h \in 1..MaxRequests :
          ( /\ RunsTurn(h)
            /\ HistoryIsArray(h)
            /\ Len(callbacks') = Len(callbacks) + 1 )
          => callbacks'[Len(callbacks')].payload.totalMessagesExchanged
                >= 2 * (Cardinality(Turns(SessionOf(h))) + 1)]_vars

\* C20 (amended): the report's totalMessagesExchanged is the length of the
\* conversationHistory attached to the completing request plus 2, an absent
\* history counting as empty; earlier turns count only as far as the caller
\* attached them.
C20_CountIsHistoryPlusTwo ==
    \A i \in DOMAIN callbacks :
        LET hist == requests[callbacks[i].handler].req.body.conversationHistory
            total == callbacks[i].payload.totalMessagesExchanged
        IN  /\ hist.type = "undefined" => total = 2
            /\ hist.type = "array" => total = Len(hist.items) + 2

\* S1 was notified on its second turn, which attached no history: the report
\* carries the first turn's phone number and counts 2 messages
C20_Witness ==
    /\ Len(requests) = 2
    /\ Turns("S1") = {1, 2}
    /\ Len(callbacks) = 1
    /\ callbacks[1].handler = 2
    /\ requests[2].req.body.conversationHistory = NoHistory
    /\ callbacks[1].payload.extractedIntelligence.phoneNumbers = <<"+1-555">>
    /\ callbacks[1].payload.totalMessagesExchanged = 2

\* the merged turns that had the request and the classifier result of turn h
Replayed(h, ai) ==
    {g \in DOMAIN requests :
        /\ g # h
        /\ Merged(g)
        /\ requests[g].req = requests[h].req
        /\ requests[g].aiData = ai}

\* C21: replaying an identical turn is idempotent: a turn that runs the
\* merge with the request and the classifier result (the fallback included)
\* of a turn already merged starts no outbound report and leaves the
\* session's accumulated intelligence and its callbackSent flag as they were.
C21_ReplayIsIdempotent ==
    [][\A h \in 1..MaxRequests :
          (RunsTurn(h) /\ Replayed(h, requests'[h].aiData) # {})
          => LET sid == SessionOf(h)
             IN  /\ callbacks' = callbacks
                 /\ sid \in DOMAIN sessionStore
                 /\ sessionStore'[sid].intel = sessionStore[sid].intel
                 /\ sessionStore'[sid].callbackSent = sessionStore[sid].callbackSent]_vars

\* S1's completing scam turn was replayed with the same request and result:
\* the repeated UPI id is stored once and one report was started
C21_Witness ==
    /\ Len(requests) = 2
    /\ Merged(1) /\ Merged(2)
    /\ requests[1].pc = "done" /\ requests[2].pc = "done"
    /\ requests[2].req = requests[1].req
    /\ requests[2].aiData = requests[1].aiData
    /\ ~requests[1].fallbackUsed
    /\ requests[1].aiData.scamDetected /\ requests[1].aiData.isEngagementComplete
    /\ Stored(SessionOf(1)).intel.upiIds = <<"x@bank">>
    /\ Stored(SessionOf(1)).callbackSent
    /\ Len(callbacks) = 1

\* the reports started by a turn that used the fallback
FallbackReports(cbs) ==
    {i \in DOMAIN cbs : requests'[cbs[i].handler].fallbackUsed}

\* C24: a turn whose classifier call timed out or failed, on a session whose
\* callbackSent is false, sets callbackSent and starts the session's report,
\* which carries the fallback keywords and the fallback agent notes; a
\* report started by a fallback turn stays the only report of its session,
\* so no genuine classifier completion of that session is reported later.
C24_FallbackSpendsTheNotification ==
    [][/\ \A h \in 1..MaxRequests :
             ( /\ RunsTurn(h)
               /\ requests'[h].fallbackUsed
               /\ SessionOf(h) \in DOMAIN sessionStore
                     => ~sessionStore[SessionOf(h)].callbackSent )
             => /\ Notifies(SessionOf(h))
                /\ LET report == callbacks'[Len(callbacks')].payload
                   IN  /\ callbacks'[Len(callbacks')].handler = h
                       /\ {"urgent", "verify"} \subseteq
                             Range(report.extractedIntelligence.suspiciousKeywords)
                       /\ report.agentNotes = "Fallback response due to LLM failure"
       /\ \A i \in FallbackReports(callbacks') :
             \A j \in DOMAIN callbacks' :
                 callbacks'[j].payload.sessionId = callbacks'[i].payload.sessionId
                    => j = i]_vars

\* S1's first turn timed out and its fallback report was delivered; a later
\* turn of S1 with a genuine completed scam result was answered and no
\* second report was started
C24_Witness ==
    /\ Len(requests) = 2
    /\ Merged(1) /\ Merged(2)
    /\ SessionOf(1) = "S1" /\ SessionOf(2) = "S1"
    /\ requests[1].fallbackUsed /\ requests[1].classifier = "pending"
    /\ ~requests[2].fallbackUsed
    /\ requests[2].aiData.scamDetected /\ requests[2].aiData.isEngagementComplete
    /\ requests[2].pc = "done"
    /\ Len(callbacks) = 1
    /\ callbacks[1].handler = 1
    /\ callbacks[1].status = "200"
    /\ callbacks[1].payload.agentNotes = "Fallback response due to LLM failure"

\* the values the merged turns of session sid extracted for field f
OwnValues(sid, f) ==
    UNION {Range(requests[g].aiData.extractedIntelligence[f]) : g \in Turns(sid)}

\* C25: sessions are isolated: a step changes the stored record (the
\* intelligence, the message count, callbackSent) of a session id only when
\* a turn of that very session runs its merge in the step, whatever the
\* interleaving; the record such a turn writes and the report it starts
\* carry only values extracted in turns of their own session, and the
\* payload of a report never changes afterwards.
C25_SessionsIsolated ==
    [][/\ \A i \in DOMAIN callbacks :
             callbacks'[i].payload = callbacks[i].payload
       /\ (sessionStore' # sessionStore \/ Len(callbacks') # Len(callbacks)) =>
             \E h \in 1..MaxRequests :
                LET sid == SessionOf(h)
                    last == callbacks'[Len(callbacks')]
                IN  /\ RunsTurn(h)
                    /\ DOMAIN sessionStore' = DOMAIN sessionStore \cup {sid}
                    /\ \A other \in DOMAIN sessionStore \ {sid} :
                          sessionStore'[other] = sessionStore[other]
                    /\ \A f \in Fields :
                          /\ Range(sessionStore'[sid].intel[f])
                                \subseteq OwnValues(sid, f)'
                          /\ Len(callbacks') # Len(callbacks) =>
                                /\ last.payload.sessionId = sid
                                /\ Range(last.payload.extractedIntelligence[f])
                                      \subseteq OwnValues(sid, f)']_vars

\* S1 and S2 each merged a turn with a different fragment; S1 was notified
\* with its phone number only, S2 holds its UPI id and keyword only
C25_Witness ==
    /\ Len(requests) = 2
    /\ Merged(1) /\ Merged(2)
    /\ {SessionOf(1), SessionOf(2)} = {"S1", "S2"}
    /\ Stored("S1").intel = [EmptyIntel EXCEPT !.phoneNumbers = <<"+1-555">>]
    /\ Stored("S2").intel = [EmptyIntel EXCEPT !.upiIds = <<"x@bank">>,
                                                !.suspiciousKeywords = <<"verify">>]
    /\ Stored("S1").callbackSent /\ ~Stored("S2").callbackSent
    /\ Len(callbacks) = 1
    /\ callbacks[1].payload.sessionId = "S1"
    /\ callbacks[1].payload.extractedIntelligence.upiIds = <<>>

---------------------------------------------------------------------------
(* Properties of App.tsx                                                   *)

\* C6 (as claimed): the scam flag is sticky: in every step, a session whose
\* isScam is true keeps it true, whatever the turn reports.
C6_ScamFlagSticky ==
    [][\A sid \in DOMAIN sessions :
          sessions[sid].isScam =>
              sid \in DOMAIN sessions' /\ sessions'[sid].isScam]_vars

---------------------------------------------------------------------------
(* Properties of the notification dispatchers, checked on DispatchSpec      *)

\* the outcome a call reports to its caller: success, aborted, failed, or
\* none when it returns no value
Outcome(call) ==
    IF call.result = Undefined THEN "none"
    ELSE IF call.result.status = "error" THEN "failed"
    ELSE call.result.status

\* C15 (as claimed): a dispatcher called with a payload whose scamDetected is
\* false has returned the aborted outcome and has started no network call.
C15_FalseScamAborts ==
    \A d \in DOMAIN dispatches :
        ~ScamDetected(dispatches[d].payload) =>
            /\ dispatches[d].pc = "returned"
            /\ dispatches[d].fetches = 0
            /\ Outcome(dispatches[d]) = "aborted"

\* C19 (as claimed): a dispatcher that does not refuse the payload starts
\* exactly one outbound request and, once it has settled, reports success
\* for a 2xx response and failed for any other status or a transport error.
C19_OneAttemptSuccessOrFailed ==
    \A d \in DOMAIN dispatches :
        LET call == dispatches[d]
        IN  ScamDetected(call.payload) =>
                /\ call.fetches = 1
                /\ call.pc = "returned" =>
                      Outcome(call) =
                          IF ~call.response.threw
                             /\ call.response.status \in 200..299
                          THEN "success" ELSE "failed"

\* C19 (amended): every call starts at most one outbound request, exactly
\* one unless it refuses the payload, and never a second one.  Once the
\* request has settled, sendFinalCallback (both versions) returns status
\* success for a 2xx response and status error for any other status or a
\* transport error; sendGuviCallback returns no value: it logs the status
\* of any response, 2xx or not, and logs a transport error as a failure.
C19_OneAttemptMappedPerDispatcher ==
    \A d \in DOMAIN dispatches :
        LET call == dispatches[d]
            twoxx == ~call.response.threw /\ call.response.status \in 200..299
        IN  /\ call.fetches = IF ScamDetected(call.payload) THEN 1 ELSE 0
            /\ (call.pc = "returned" /\ call.fetches = 1) =>
                  IF call.fn = "sendGuviCallback"
                  THEN /\ call.result = Undefined
                       /\ call.log = IF call.response.threw
                                     THEN <<"Callback failed:">>
                                     ELSE <<"GUVI callback status:">>
                  ELSE call.result.status = IF twoxx THEN "success" ELSE "error"

\* sendGuviCallback has returned after a 500 and sendFinalCallback after a
\* transport error, one request each
C19_Witness ==
    /\ Len(dispatches) = 2
    /\ dispatches[1].fn = "sendGuviCallback"
    /\ dispatches[1].pc = "returned"
    /\ dispatches[1].response = [threw |-> FALSE, status |-> 500]
    /\ dispatches[1].fetches = 1
    /\ dispatches[2].fn = "sendFinalCallback"
    /\ dispatches[2].pc = "returned"
    /\ dispatches[2].fetches = 1
    /\ dispatches[2].response.threw
    /\ dispatches[2].result.status = "error"

---------------------------------------------------------------------------
(* Properties of the merge, checked on MergeSpec                            *)

NoDuplicates(arr) == Cardinality(Range(arr)) = Len(arr)

\* C22: the field-wise merge is commutative and associative as a set
\* operation: for all fragments a, b, c and every field, merge(a,b) and
\* merge(b,a) hold the same set of values, merge(merge(a,b),c) and
\* merge(a,merge(b,c)) hold the same set of values, and no result repeats a
\* value.
C22_MergeCommutesAndAssociates ==
    merges.by \in {"server", "app"} =>
        \A f \in Fields :
            /\ Range(merges.ab[f]) = Range(merges.ba[f])
            /\ Range(merges.ab[f]) = Range(merges.a[f]) \cup Range(merges.b[f])
            /\ Range(merges.ab_c[f]) = Range(merges.a_bc[f])
            /\ \A r \in {merges.ab, merges.ba, merges.ab_c, merges.a_bc} :
                  NoDuplicates(r[f])

\* server.js merged fragments that repeat and share values: the two orders
\* give different arrays with the same values
C22_Witness ==
    /\ merges.by = "server"
    /\ merges.a.phoneNumbers = <<"v1", "v1">>
    /\ merges.b.phoneNumbers = <<"v2", "v1">>
    /\ merges.c.phoneNumbers = <<"v2">>
    /\ merges.ab.phoneNumbers = <<"v1", "v2">>
    /\ merges.ba.phoneNumbers = <<"v2", "v1">>
    /\ merges.ab_c.phoneNumbers = <<"v1", "v2">>

---------------------------------------------------------------------------
(* Properties of the session status of App.tsx, checked on AppSpec          *)

\* C23 (as claimed): a session's status starts active, becomes completed on
\* a turn whose classification reports isEngagementComplete=true (or when
\* the session is ended), and completed is terminal: no later step returns
\* the session to active.
C23_CompletedIsTerminal ==
    [][/\ \A sid \in DOMAIN sessions' \ DOMAIN sessions :
             \E h \in DOMAIN appRequests' :
                 /\ appRequests'[h].req.sessionId = sid
                 /\ appRequests'[h].pc = "done"
                 /\ appRequests'[h].result # Undefined
                 /\ sessions'[sid].status =
                       IF appRequests'[h].result.isEngagementComplete
                       THEN "completed" ELSE "active"
       /\ \A sid \in DOMAIN sessions :
             sessions[sid].status = "completed"
                => sessions'[sid].status = "completed"]_vars
====
